---- MODULE Spec2Model ----
(***************************************************************************)
(* Model of FileSystemSpecService (src/src/core/SpecService.ts): the       *)
(* in-memory Catalog / SpecStore / Cache, the durable catalog record and   *)
(* document records, and the asynchronous initialize / refresh /           *)
(* scanAndSave operations, split at their await points.                    *)
(***************************************************************************)
EXTENDS Naturals, Integers, Sequences, FiniteSets, TLC

\* ------------------------------------------------------------------------
\* Bounds of the model
\* ------------------------------------------------------------------------

\* the longest sequence one scan yields
MaxScan == 2

\* the callers that may have an initialize/refresh/scanAndSave call running
Procs == {1, 2}

\* the callers of the specification in which calls run one at a time
SeqProcs == {1}

\* the latest reading of the clock, in milliseconds
MaxClock == 3

\* the cache TTL of a configuration that sets none (or sets a falsy one)
DefaultTtl == 3600000

\* ------------------------------------------------------------------------
\* Documents
\* ------------------------------------------------------------------------

SpecIds == {"a", "b"}

\* JavaScript null / undefined where a record is expected
Null == [kind |-> "null"]

\* undefined where a string is expected
Undefined == "undefined"

\* the value of a structural path-item key (parameters, $ref)
Structural == [kind |-> "structural"]

\* the value of a path item's summary or description key: a string
PathItemText == [kind |-> "text"]

Operation(id, summary, tags) ==
    [kind |-> "operation", operationId |-> id, summary |-> summary,
     description |-> Undefined, tags |-> tags]

\* a document whose path item carries a structural key next to an operation
DocV1 ==
    [kind |-> "doc", hasInfo |-> TRUE, description |-> "v1", hasPaths |-> TRUE,
     paths |-> << [path |-> "/pets",
                   item |-> << [key |-> "parameters", val |-> Structural],
                               [key |-> "get",
                                val |-> Operation("listPets", "List pets", <<"pets">>)] >>] >>,
     hasSchemas |-> TRUE,
     schemas |-> << [name |-> "Pet", description |-> "A pet"] >>]

\* a later version of a document: another operation, no component schemas
DocV2 ==
    [kind |-> "doc", hasInfo |-> TRUE, description |-> "v2", hasPaths |-> TRUE,
     paths |-> << [path |-> "/pets",
                   item |-> << [key |-> "post",
                                val |-> Operation("createPet", Undefined, << >>)] >>] >>,
     hasSchemas |-> FALSE,
     schemas |-> << >>]

\* a document without an info object: spec.info.description throws
DocNoInfo ==
    [kind |-> "doc", hasInfo |-> FALSE, description |-> Undefined,
     hasPaths |-> TRUE, paths |-> << >>, hasSchemas |-> FALSE, schemas |-> << >>]

\* a document with neither a paths nor a components section
DocNoPaths ==
    [kind |-> "doc", hasInfo |-> TRUE, description |-> "none",
     hasPaths |-> FALSE, paths |-> << >>, hasSchemas |-> FALSE, schemas |-> << >>]

\* a document with a path item that has no operation, and no schema
DocEmptyItem ==
    [kind |-> "doc", hasInfo |-> TRUE, description |-> "empty",
     hasPaths |-> TRUE, paths |-> << [path |-> "/pets", item |-> << >>] >>,
     hasSchemas |-> TRUE, schemas |-> << >>]

\* a document whose component schemas are User and Order, without
\* descriptions
DocUsers ==
    [kind |-> "doc", hasInfo |-> TRUE, description |-> "users", hasPaths |-> TRUE,
     paths |-> << >>,
     hasSchemas |-> TRUE,
     schemas |-> << [name |-> "User", description |-> Undefined],
                    [name |-> "Order", description |-> Undefined] >>]

\* a document whose path item carries a summary next to its operation
DocPathSummary ==
    [kind |-> "doc", hasInfo |-> TRUE, description |-> "summary", hasPaths |-> TRUE,
     paths |-> << [path |-> "/pets",
                   item |-> << [key |-> "summary", val |-> PathItemText],
                               [key |-> "get",
                                val |-> Operation("listPets", "List pets", <<"pets">>)] >>] >>,
     hasSchemas |-> FALSE,
     schemas |-> << >>]

GoodDocs == {DocV1, DocV2}

\* the documents of the sources in the runs about the extraction
ExtractDocs == {DocV1, DocV2, DocPathSummary}

\* the documents of the sources whose schemas are searched
SchemaDocs == {DocV1, DocUsers}

\* the shapes of document a build stores
ShapeDocs == {DocV1, DocNoPaths, DocEmptyItem}

ScanDocs == GoodDocs \cup {DocNoInfo}

\* what the scanner yields: a dereferenced document under a specId, or a
\* per-file error
ErrorItem == [specId |-> Undefined, spec |-> Null, error |-> TRUE]

\* "a" is scanned in either version, "b" in one
ItemsOf(docs) ==
    {[specId |-> "a", spec |-> d, error |-> FALSE] : d \in docs}
        \cup {[specId |-> "b", spec |-> d, error |-> FALSE] : d \in docs \ {DocV2}}

\* every item: documents whose extraction succeeds or throws, and the error
ScanItems == ItemsOf(ScanDocs) \cup {ErrorItem}

\* the items of the runs with storage failures: a skipped item leaves no
\* trace in a build, so these runs scan the documents that are kept
FaultRunItems == ItemsOf(GoodDocs)

\* ------------------------------------------------------------------------
\* Sequence helpers
\* ------------------------------------------------------------------------

RECURSIVE Flatten(_)
Flatten(ss) == IF ss = << >> THEN << >> ELSE Head(ss) \o Flatten(Tail(ss))

Range(s) == {s[i] : i \in 1..Len(s)}

\* the number of positions of s that hold x
Count(s, x) == Cardinality({i \in 1..Len(s) : s[i] = x})

\* s and t hold the same elements the same number of times
IsPermutation(s, t) ==
    /\ Len(s) = Len(t)
    /\ \A x \in Range(s) \cup Range(t) : Count(s, x) = Count(t, x)

\* ------------------------------------------------------------------------
\* Metadata extraction (scanAndSave, the body of the per-document try)
\* ------------------------------------------------------------------------

IsStructuralKey(method) == method = "parameters" \/ method = "$ref"

\* a property of the value under a path-item key: a value that is no
\* operation object (a string, an array) has none of them
Property(value, name) ==
    IF value.kind = "operation" THEN value[name] ELSE Undefined

\* operation.tags?.[0]
FirstTag(operation) ==
    IF operation.kind = "operation" /\ Len(operation.tags) > 0
    THEN operation.tags[1] ELSE Undefined

OperationEntry(path, method, operation) ==
    [path |-> path, method |-> method, title |-> Property(operation, "summary"),
     description |-> Property(operation, "description"),
     group |-> FirstTag(operation),
     operationId |-> Property(operation, "operationId")]

\* the method keys of one path item that the extraction visits
MethodKeys(item) == SelectSeq(item, LAMBDA kv : ~IsStructuralKey(kv.key))

ExtractOperations(spec) ==
    Flatten([i \in 1..Len(spec.paths) |->
        LET keep == MethodKeys(spec.paths[i].item)
        IN  [j \in 1..Len(keep) |->
                OperationEntry(spec.paths[i].path, keep[j].key, keep[j].val)]])

ExtractSchemas(spec) ==
    IF spec.hasSchemas
    THEN [i \in 1..Len(spec.schemas) |->
            [name |-> spec.schemas[i].name,
             description |-> spec.schemas[i].description]]
    ELSE << >>

\* the extraction dereferences a null operation or a missing info object
ExtractThrows(spec) ==
    \/ spec.kind # "doc"
    \/ \E i \in 1..Len(spec.paths) :
          \E j \in 1..Len(spec.paths[i].item) :
             /\ ~IsStructuralKey(spec.paths[i].item[j].key)
             /\ spec.paths[i].item[j].val.kind = "null"
    \/ ~spec.hasInfo

CatalogEntry(specId, spec) ==
    [uri |-> [specId |-> specId, type |-> "specification", identifier |-> specId],
     description |-> spec.description,
     operations |-> ExtractOperations(spec),
     schemas |-> ExtractSchemas(spec)]

\* ------------------------------------------------------------------------
\* Configuration (SpecServiceConfig, as the constructor reads it)
\* ------------------------------------------------------------------------

EmptyStore == [s \in SpecIds |-> Null]

\* an optional number of the configuration: not set, or set to ms
NotSet == [set |-> FALSE, ms |-> 0]

Ms(n) == [set |-> TRUE, ms |-> n]

\* the configuration of the command line: a base path, no cache TTL
DefaultConfig == [basePath |-> "specs", ttl |-> NotSet]

\* a || b on an optional number: undefined and 0 are falsy
OrDefault(v, default) == IF ~v.set \/ v.ms = 0 THEN default ELSE v.ms

\* ------------------------------------------------------------------------
\* State
\* ------------------------------------------------------------------------

VARIABLES
    catalog,            \* this.catalog
    specs,              \* this.specs
    specCache,          \* this.specCache
    diskSpecs,          \* the durable document records, <dereferenced>/<specId>.json
    diskCatalog,        \* the durable catalog record, <catalog>/catalog.json
    pc,                 \* where each caller's call is suspended
    op,                 \* the call each caller issued last
    result,             \* how that call ended: "none", "ok" or the error code
    scanned,            \* the items the scanner has yielded to the running build
    pendingOperations,  \* scanAndSave's pendingOperations
    tempCatalog,        \* scanAndSave's tempCatalog
    saved,              \* the indexes of pendingOperations whose saveSpec resolved
    loaded,             \* loadExistingCatalog's loadSpec promises, by catalog index
    pre,                \* the in-memory state when the running scanAndSave was entered
    fault,              \* what the running call has caught: a failed load, or
                        \* what made its scanAndSave throw
    orphans,            \* promises still running after their Promise.all rejected
    config,             \* the SpecServiceConfig the service was constructed with
    now,                \* Date.now()
    io,                 \* the argument and outcome of a direct loadSpec / saveSpec call
    prev,               \* the last loadSpec that returned, no write since
    initialized,        \* a caller has run initialize() on this service
    tool                \* the remote call each caller has made, and its reply

vars ==
    <<catalog, specs, specCache, diskSpecs, diskCatalog, pc, op, result, scanned,
      pendingOperations, tempCatalog, saved, loaded, pre, fault, orphans,
      config, now, io, prev, initialized, tool>>

memory == <<catalog, specs, specCache>>

disk == <<diskSpecs, diskCatalog>>

locals == <<scanned, pendingOperations, tempCatalog, saved, loaded, pre, fault>>

\* the variables of the storage calls, the clock and the configuration,
\* which initialize / refresh / scanAndSave leave alone
direct == <<config, now, io, prev, initialized, tool>>

NoSnapshot == [catalog |-> << >>, specs |-> EmptyStore, specCache |-> EmptyStore]

NoIo ==
    [specId |-> Undefined, doc |-> Null, value |-> Null, errno |-> "none",
     cause |-> FALSE, read |-> FALSE, calledAt |-> 0, hadEntry |-> FALSE,
     entryAt |-> 0]

NoPrev == [specId |-> Undefined, value |-> Null, cachedAt |-> 0]

\* no remote call of a caller is open
NoTool == [name |-> "none", args |-> << >>, reply |-> [kind |-> "none"]]

\* ------------------------------------------------------------------------
\* Cache (SimpleCache: get / set / clear)
\* ------------------------------------------------------------------------

\* this.config.cache.ttl: config.cache?.ttl || 60 * 60 * 1000
CacheTtl == OrDefault(config.ttl, DefaultTtl)

\* an entry is absent once now - insertedAt > ttl
CacheGet(cache, key) ==
    IF cache[key] = Null THEN Null
    ELSE IF now - cache[key].at > CacheTtl THEN Null
    ELSE cache[key].value

CacheSet(cache, key, value) ==
    [cache EXCEPT ![key] = [kind |-> "entry", value |-> value, at |-> now]]

CacheClear == EmptyStore

\* the state after new FileSystemSpecService(scanner, c)
InitWith(c) ==
    /\ catalog = << >>
    /\ specs = EmptyStore
    /\ specCache = EmptyStore
    /\ diskSpecs = EmptyStore
    /\ diskCatalog = [exists |-> FALSE, entries |-> << >>]
    /\ pc = [p \in Procs |-> "idle"]
    /\ op = [p \in Procs |-> "none"]
    /\ result = [p \in Procs |-> "none"]
    /\ scanned = [p \in Procs |-> << >>]
    /\ pendingOperations = [p \in Procs |-> << >>]
    /\ tempCatalog = [p \in Procs |-> << >>]
    /\ saved = [p \in Procs |-> {}]
    /\ loaded = [p \in Procs |-> << >>]
    /\ pre = [p \in Procs |-> NoSnapshot]
    /\ fault = [p \in Procs |-> "none"]
    /\ orphans = {}
    /\ config = c
    /\ now = 0
    /\ io = [p \in Procs |-> NoIo]
    /\ prev = NoPrev
    /\ initialized = FALSE
    /\ tool = [p \in Procs |-> NoTool]

Init == InitWith(DefaultConfig)

\* ------------------------------------------------------------------------
\* Helpers of the operations
\* ------------------------------------------------------------------------

\* resetState()
ResetState ==
    /\ catalog' = << >>
    /\ specs' = EmptyStore
    /\ specCache' = CacheClear

\* a call is issued
StartCall(p, name, at) ==
    /\ pc[p] = "idle"
    /\ pc' = [pc EXCEPT ![p] = at]
    /\ op' = [op EXCEPT ![p] = name]
    /\ result' = [result EXCEPT ![p] = "none"]
    /\ UNCHANGED <<memory, disk, locals, orphans>>
    /\ UNCHANGED direct

\* a call has ended: its locals are gone
EndCall(p) ==
    /\ pc' = [pc EXCEPT ![p] = "idle"]
    /\ op' = [op EXCEPT ![p] = "none"]
    /\ scanned' = [scanned EXCEPT ![p] = << >>]
    /\ pendingOperations' = [pendingOperations EXCEPT ![p] = << >>]
    /\ tempCatalog' = [tempCatalog EXCEPT ![p] = << >>]
    /\ saved' = [saved EXCEPT ![p] = {}]
    /\ loaded' = [loaded EXCEPT ![p] = << >>]
    /\ pre' = [pre EXCEPT ![p] = NoSnapshot]
    /\ fault' = [fault EXCEPT ![p] = "none"]

\* this.specs after saveSpec's this.specs[specId] = spec
SpecsAfterSave_NotStored(store, specId, spec) == store

SpecsAfterSave(store, specId, spec) == [store EXCEPT ![specId] = spec]

\* loadExistingCatalog's forEach over the loaded documents, from index i on:
\* this.specs[this.catalog[index].uri.specId] = spec
RECURSIVE ForEachSpecs(_, _, _, _)
ForEachSpecs(store, cat, docs, i) ==
    IF i > Len(docs) THEN store
    ELSE ForEachSpecs([store EXCEPT ![cat[i].uri.specId] = docs[i].spec], cat, docs, i + 1)

\* the same forEach: this.specCache.set(specId, spec)
RECURSIVE ForEachCache(_, _, _, _)
ForEachCache(cache, cat, docs, i) ==
    IF i > Len(docs) THEN cache
    ELSE ForEachCache(CacheSet(cache, cat[i].uri.specId, docs[i].spec), cat, docs, i + 1)

\* the loadSpec promises of p that have not settled
PendingLoads(p) == {i \in 1..Len(loaded[p]) : loaded[p][i].spec = Null}

\* the saveSpec promises of p that have not settled
PendingSaves(p) == (1..Len(pendingOperations[p])) \ saved[p]

\* await Promise.all(pendingOperations.map(...)) has resolved
PromiseAllSettled(p) == PendingSaves(p) = {}

\* the scan items that contribute no pending operation: error set, or the
\* extraction threw inside the per-document try
Skipped_ErrorOnly(item) == item.error

Skipped(item) == item.error \/ ExtractThrows(item.spec)

\* ------------------------------------------------------------------------
\* initialize / refresh
\* ------------------------------------------------------------------------

\* initialize() up to its first await
CallInitialize(p) == StartCall(p, "initialize", "ensureDirs")

\* refresh(): this.folderPath is the base path the constructor was given;
\* when it is not empty refresh() runs initialize()
CallRefresh(p) ==
    /\ config.basePath # ""
    /\ StartCall(p, "refresh", "ensureDirs")

\* refresh() with an empty this.folderPath: it throws, initialize() is not run
NotInitialized == "Error: FileSystemSpecService not initialized"

RefreshThrow(p) ==
    /\ config.basePath = ""
    /\ pc[p] = "idle"
    /\ pc' = [pc EXCEPT ![p] = "done"]
    /\ op' = [op EXCEPT ![p] = "refresh"]
    /\ result' = [result EXCEPT ![p] = NotInitialized]
    /\ UNCHANGED <<memory, disk, locals, orphans>>
    /\ UNCHANGED direct

\* the catch block of initialize(): resetState, then INIT_ERROR
InitializeCatch(p) ==
    /\ ResetState
    /\ EndCall(p)
    /\ result' = [result EXCEPT ![p] = "INIT_ERROR"]

\* await this.ensureDirectories() resolves
EnsureDirectories(p) ==
    /\ pc[p] = "ensureDirs"
    /\ pc' = [pc EXCEPT ![p] = "loadCatalog"]
    /\ UNCHANGED <<memory, disk, op, result, locals, orphans>>
    /\ UNCHANGED direct

\* a mkdir of ensureDirectories() fails
EnsureDirectoriesFail(p) ==
    /\ pc[p] = "ensureDirs"
    /\ InitializeCatch(p)
    /\ UNCHANGED <<disk, orphans>>
    /\ UNCHANGED direct

\* the catch block of loadExistingCatalog(), entered when promise i rejected:
\* the other loadSpec promises keep running
LoadCatch_KeepsState(p, docs, i) ==
    /\ UNCHANGED memory
    /\ pc' = [pc EXCEPT ![p] = "scanEntry"]
    /\ loaded' = [loaded EXCEPT ![p] = << >>]
    /\ fault' = [fault EXCEPT ![p] = "load"]
    /\ orphans' = orphans \cup
          {[kind |-> "load", specId |-> docs[j].specId, spec |-> Null] :
              j \in {k \in 1..Len(docs) : docs[k].spec = Null /\ k # i}}

LoadCatch(p, docs, i) ==
    /\ ResetState
    /\ pc' = [pc EXCEPT ![p] = "scanEntry"]
    /\ loaded' = [loaded EXCEPT ![p] = << >>]
    /\ fault' = [fault EXCEPT ![p] = "load"]
    /\ orphans' = orphans \cup
          {[kind |-> "load", specId |-> docs[j].specId, spec |-> Null] :
              j \in {k \in 1..Len(docs) : docs[k].spec = Null /\ k # i}}

\* this.catalog = await this.loadSpecCatalog(), then loadSpec is called for
\* every entry: each call answers from the cache or starts a read
LoadSpecCatalog(p) ==
    /\ pc[p] = "loadCatalog"
    /\ LET cat == IF diskCatalog.exists THEN diskCatalog.entries ELSE << >>
           docs == [i \in 1..Len(cat) |->
                      [specId |-> cat[i].uri.specId,
                       spec |-> CacheGet(specCache, cat[i].uri.specId)]]
       IN  /\ catalog' = cat
           /\ IF \E i \in 1..Len(docs) : docs[i].spec = Null
              THEN /\ loaded' = [loaded EXCEPT ![p] = docs]
                   /\ pc' = [pc EXCEPT ![p] = "loadSpecs"]
                   /\ UNCHANGED <<specs, specCache, orphans>>
              ELSE /\ specs' = ForEachSpecs(specs, cat, docs, 1)
                   /\ specCache' = ForEachCache(specCache, cat, docs, 1)
                   /\ pc' = [pc EXCEPT ![p] = "scanEntry"]
                   /\ loaded' = [loaded EXCEPT ![p] = << >>]
                   /\ UNCHANGED orphans
    /\ UNCHANGED <<disk, op, result, scanned, pendingOperations, tempCatalog,
                   saved, pre, fault>>
    /\ UNCHANGED direct

\* loadSpecCatalog() throws (the record is unreadable or is not JSON)
LoadSpecCatalogFail(p) ==
    /\ pc[p] = "loadCatalog"
    /\ LoadCatch(p, << >>, 0)
    /\ UNCHANGED <<disk, op, result, scanned, pendingOperations, tempCatalog,
                   saved, pre>>
    /\ UNCHANGED direct

\* the read of loadSpec promise i completes: the document is cached and
\* returned, or there is no record (ENOENT) and loadSpec throws LOAD_ERROR;
\* after the last promise resolved the forEach runs, which throws when
\* this.catalog[index] is undefined
ReadSpec(p, i) ==
    /\ pc[p] = "loadSpecs"
    /\ i \in PendingLoads(p)
    /\ LET specId == loaded[p][i].specId
           spec == diskSpecs[specId]
           docs == [loaded[p] EXCEPT ![i].spec = spec]
           cache == CacheSet(specCache, specId, spec)
       IN  IF spec = Null
           THEN LoadCatch(p, loaded[p], i)
           ELSE IF \E j \in 1..Len(docs) : docs[j].spec = Null
                THEN /\ loaded' = [loaded EXCEPT ![p] = docs]
                     /\ specCache' = cache
                     /\ UNCHANGED <<catalog, specs, pc, orphans, fault>>
                ELSE /\ IF Len(catalog) < Len(docs)
                        THEN LoadCatch(p, docs, 0)
                        ELSE /\ specs' = ForEachSpecs(specs, catalog, docs, 1)
                             /\ specCache' = ForEachCache(cache, catalog, docs, 1)
                             /\ pc' = [pc EXCEPT ![p] = "scanEntry"]
                             /\ loaded' = [loaded EXCEPT ![p] = << >>]
                             /\ UNCHANGED <<catalog, orphans, fault>>
    /\ UNCHANGED <<disk, op, result, scanned, pendingOperations, tempCatalog,
                   saved, pre>>
    /\ UNCHANGED direct

\* the read of loadSpec promise i fails or yields no JSON: LOAD_ERROR
ReadSpecFail(p, i) ==
    /\ pc[p] = "loadSpecs"
    /\ i \in PendingLoads(p)
    /\ LoadCatch(p, loaded[p], i)
    /\ UNCHANGED <<disk, op, result, scanned, pendingOperations, tempCatalog,
                   saved, pre>>
    /\ UNCHANGED direct

\* ------------------------------------------------------------------------
\* scanAndSave
\* ------------------------------------------------------------------------

\* scanAndSave(folderPath) called directly
CallScanAndSave(p) == StartCall(p, "scanAndSave", "scanEntry")

\* scanAndSave() is entered: the scan is requested. pre records the Catalog
\* the call found and, when stores is set, the SpecStore and the Cache too
BeginScan(p, stores) ==
    /\ pc[p] = "scanEntry"
    /\ pc' = [pc EXCEPT ![p] = "scan"]
    /\ pre' = [pre EXCEPT ![p] =
                  [catalog |-> catalog,
                   specs |-> IF stores THEN specs ELSE EmptyStore,
                   specCache |-> IF stores THEN specCache ELSE EmptyStore]]
    /\ UNCHANGED <<memory, disk, op, result, scanned, pendingOperations,
                   tempCatalog, saved, loaded, fault, orphans>>
    /\ UNCHANGED direct

\* the catch block of scanAndSave(): SCAN_ERROR, this.catalog is not assigned
ScanAndSaveCatch_Swaps(p, why) ==
    /\ pc' = [pc EXCEPT ![p] = "scanThrown"]
    /\ result' = [result EXCEPT ![p] = "SCAN_ERROR"]
    /\ fault' = [fault EXCEPT ![p] = why]
    /\ catalog' = tempCatalog[p]

ScanAndSaveCatch(p, why) ==
    /\ pc' = [pc EXCEPT ![p] = "scanThrown"]
    /\ result' = [result EXCEPT ![p] = "SCAN_ERROR"]
    /\ fault' = [fault EXCEPT ![p] = why]
    /\ catalog' = catalog

\* one iteration of the for await: the scanner yields an item
ScanYield_WritesAtOnce(p, item) ==
    /\ pc[p] = "scan"
    /\ Len(scanned[p]) < MaxScan
    /\ scanned' = [scanned EXCEPT ![p] = Append(@, item)]
    /\ pendingOperations' =
          IF Skipped(item)
          THEN pendingOperations
          ELSE [pendingOperations EXCEPT ![p] =
                   Append(@, [spec |-> item.spec,
                              entry |-> CatalogEntry(item.specId, item.spec)])]
    /\ diskSpecs' = IF Skipped(item) THEN diskSpecs
                    ELSE [diskSpecs EXCEPT ![item.specId] = item.spec]
    /\ UNCHANGED <<memory, diskCatalog, pc, op, result, tempCatalog, saved, loaded,
                   pre, fault, orphans>>
    /\ UNCHANGED direct

ScanYield(p, item) ==
    /\ pc[p] = "scan"
    /\ Len(scanned[p]) < MaxScan
    /\ scanned' = [scanned EXCEPT ![p] = Append(@, item)]
    /\ pendingOperations' =
          IF Skipped(item)
          THEN pendingOperations
          ELSE [pendingOperations EXCEPT ![p] =
                   Append(@, [spec |-> item.spec,
                              entry |-> CatalogEntry(item.specId, item.spec)])]
    /\ UNCHANGED <<memory, disk, pc, op, result, tempCatalog, saved, loaded, pre,
                   fault, orphans>>
    /\ UNCHANGED direct

\* the scanner's sequence ends: await this.ensureDirectories() is issued
ScanEnd(p) ==
    /\ pc[p] = "scan"
    /\ pc' = [pc EXCEPT ![p] = "commitDirs"]
    /\ UNCHANGED <<memory, disk, op, result, locals, orphans>>
    /\ UNCHANGED direct

\* the scanner's sequence throws
ScanThrow(p) ==
    /\ pc[p] = "scan"
    /\ ScanAndSaveCatch(p, "scan")
    /\ UNCHANGED <<specs, specCache, disk, op, scanned, pendingOperations,
                   tempCatalog, saved, loaded, pre, orphans>>
    /\ UNCHANGED direct

\* ensureDirectories() resolves: every saveSpec of the Promise.all is issued
CommitEnsureDirectories(p) ==
    /\ pc[p] = "commitDirs"
    /\ pc' = [pc EXCEPT ![p] = "saving"]
    /\ UNCHANGED <<memory, disk, op, result, locals, orphans>>
    /\ UNCHANGED direct

\* a mkdir of the commit phase's ensureDirectories() fails
CommitEnsureDirectoriesFail(p) ==
    /\ pc[p] = "commitDirs"
    /\ ScanAndSaveCatch(p, "storage")
    /\ UNCHANGED <<specs, specCache, disk, op, scanned, pendingOperations,
                   tempCatalog, saved, loaded, pre, orphans>>
    /\ UNCHANGED direct

\* saveSpec(spec, specId) of pending operation i resolves: the record is
\* written, this.specs and the cache are set, then the entry is pushed
SaveSpec(p, i) ==
    /\ pc[p] = "saving"
    /\ i \in PendingSaves(p)
    /\ LET spec == pendingOperations[p][i].spec
           entry == pendingOperations[p][i].entry
           specId == entry.uri.specId
       IN  /\ diskSpecs' = [diskSpecs EXCEPT ![specId] = spec]
           /\ specs' = SpecsAfterSave(specs, specId, spec)
           /\ specCache' = CacheSet(specCache, specId, spec)
           /\ tempCatalog' = [tempCatalog EXCEPT ![p] = Append(@, entry)]
    /\ saved' = [saved EXCEPT ![p] = @ \cup {i}]
    /\ UNCHANGED <<catalog, diskCatalog, pc, op, result, scanned,
                   pendingOperations, loaded, pre, fault, orphans>>
    /\ UNCHANGED direct

\* saveSpec of pending operation i throws PERSIST_ERROR: Promise.all rejects
\* at once, the other saveSpec promises keep running
SaveSpecFail_AwaitsTheRest(p, i) ==
    /\ pc[p] = "saving"
    /\ i \in PendingSaves(p)
    /\ IF PendingSaves(p) = {i}
       THEN ScanAndSaveCatch(p, "storage")
       ELSE /\ pc' = [pc EXCEPT ![p] = "awaitRest"]
            /\ UNCHANGED <<catalog, result, fault>>
    /\ orphans' = orphans \cup
          {[kind |-> "save", specId |-> pendingOperations[p][j].entry.uri.specId,
            spec |-> pendingOperations[p][j].spec] : j \in PendingSaves(p) \ {i}}
    /\ UNCHANGED <<specs, specCache, disk, op, scanned, pendingOperations,
                   tempCatalog, saved, loaded, pre>>
    /\ UNCHANGED direct

SaveSpecFail(p, i) ==
    /\ pc[p] = "saving"
    /\ i \in PendingSaves(p)
    /\ ScanAndSaveCatch(p, "storage")
    /\ orphans' = orphans \cup
          {[kind |-> "save", specId |-> pendingOperations[p][j].entry.uri.specId,
            spec |-> pendingOperations[p][j].spec] : j \in PendingSaves(p) \ {i}}
    /\ UNCHANGED <<specs, specCache, disk, op, scanned, pendingOperations,
                   tempCatalog, saved, loaded, pre>>
    /\ UNCHANGED direct

\* the catalog assembled from the pending list and written before the
\* documents are
SaveSpecCatalog_BeforeDocuments(p) ==
    /\ pc[p] = "saving"
    /\ LET entries == [i \in 1..Len(pendingOperations[p]) |->
                          pendingOperations[p][i].entry]
       IN  /\ diskCatalog' = [exists |-> TRUE, entries |-> entries]
           /\ catalog' = entries
    /\ pc' = [pc EXCEPT ![p] = "returned"]
    /\ result' = [result EXCEPT ![p] = "ok"]
    /\ UNCHANGED <<specs, specCache, diskSpecs, op, locals, orphans>>
    /\ UNCHANGED direct

\* await this.saveSpecCatalog(tempCatalog) resolves; this.catalog = tempCatalog
SaveSpecCatalog(p) ==
    /\ pc[p] = "saving"
    /\ PromiseAllSettled(p)
    /\ diskCatalog' = [exists |-> TRUE, entries |-> tempCatalog[p]]
    /\ catalog' = tempCatalog[p]
    /\ pc' = [pc EXCEPT ![p] = "returned"]
    /\ result' = [result EXCEPT ![p] = "ok"]
    /\ UNCHANGED <<specs, specCache, diskSpecs, op, locals, orphans>>
    /\ UNCHANGED direct

\* the catalog write fails
SaveSpecCatalogFail(p) ==
    /\ pc[p] = "saving"
    /\ PromiseAllSettled(p)
    /\ ScanAndSaveCatch(p, "storage")
    /\ UNCHANGED <<specs, specCache, disk, op, scanned, pendingOperations,
                   tempCatalog, saved, loaded, pre, orphans>>
    /\ UNCHANGED direct

\* a scanAndSave() called directly raises its SCAN_ERROR to the caller
ScanAndSaveRaise(p) ==
    /\ pc[p] = "scanThrown"
    /\ op[p] = "scanAndSave"
    /\ EndCall(p)
    /\ UNCHANGED <<memory, disk, result, orphans>>
    /\ UNCHANGED direct

\* scanAndSave() has resolved, and with it the initialize() that awaited it
Return(p) ==
    /\ pc[p] = "returned"
    /\ EndCall(p)
    /\ UNCHANGED <<memory, disk, result, orphans>>
    /\ UNCHANGED direct

\* initialize() catches the SCAN_ERROR of its scanAndSave()
InitializeRaise(p) ==
    /\ pc[p] = "scanThrown"
    /\ op[p] \in {"initialize", "refresh"}
    /\ InitializeCatch(p)
    /\ UNCHANGED <<disk, orphans>>
    /\ UNCHANGED direct

\* ------------------------------------------------------------------------
\* Promises left running by a rejected Promise.all, and the process
\* ------------------------------------------------------------------------

\* a left-over saveSpec resolves
OrphanSave(o) ==
    /\ o \in orphans
    /\ o.kind = "save"
    /\ diskSpecs' = [diskSpecs EXCEPT ![o.specId] = o.spec]
    /\ specs' = SpecsAfterSave(specs, o.specId, o.spec)
    /\ specCache' = CacheSet(specCache, o.specId, o.spec)
    /\ orphans' = orphans \ {o}
    /\ UNCHANGED <<catalog, diskCatalog, pc, op, result, locals>>
    /\ UNCHANGED direct

\* a left-over loadSpec completes its read
OrphanLoad(o) ==
    /\ o \in orphans
    /\ o.kind = "load"
    /\ specCache' = IF diskSpecs[o.specId] = Null
                    THEN specCache
                    ELSE CacheSet(specCache, o.specId, diskSpecs[o.specId])
    /\ orphans' = orphans \ {o}
    /\ UNCHANGED <<catalog, specs, disk, pc, op, result, locals>>
    /\ UNCHANGED direct

\* a left-over promise rejects: nobody observes it
OrphanFail(o) ==
    /\ o \in orphans
    /\ orphans' = orphans \ {o}
    /\ UNCHANGED <<memory, disk, pc, op, result, locals>>
    /\ UNCHANGED direct

\* the process ends (a crash included) and a new one constructs the
\* service: the fields are as the constructor leaves them, the records stay
Restart ==
    /\ catalog' = << >>
    /\ specs' = EmptyStore
    /\ specCache' = EmptyStore
    /\ pc' = [p \in Procs |-> "idle"]
    /\ op' = [p \in Procs |-> "none"]
    /\ result' = [p \in Procs |-> "none"]
    /\ scanned' = [p \in Procs |-> << >>]
    /\ pendingOperations' = [p \in Procs |-> << >>]
    /\ tempCatalog' = [p \in Procs |-> << >>]
    /\ saved' = [p \in Procs |-> {}]
    /\ loaded' = [p \in Procs |-> << >>]
    /\ pre' = [p \in Procs |-> NoSnapshot]
    /\ fault' = [p \in Procs |-> "none"]
    /\ orphans' = {}
    /\ io' = [p \in Procs |-> NoIo]
    /\ prev' = NoPrev
    /\ initialized' = FALSE
    /\ tool' = [p \in Procs |-> NoTool]
    /\ UNCHANGED <<disk, config, now>>

\* ------------------------------------------------------------------------
\* loadSpec / saveSpec / saveSpecCatalog called directly
\* ------------------------------------------------------------------------

\* the variables a storage call leaves alone besides those it names
StorageFrame ==
    <<catalog, scanned, pendingOperations, saved, loaded, fault, orphans,
      config, now, initialized, tool>>

\* the call has settled: the caller sees result and io
Settle(p, code) ==
    /\ pc' = [pc EXCEPT ![p] = "done"]
    /\ result' = [result EXCEPT ![p] = code]

\* the catch block of loadSpec: LOAD_ERROR, without a cause when the read
\* found no record (ENOENT), with the error as cause otherwise
LoadSpecCatch_AlwaysCause(errno) == [code |-> "LOAD_ERROR", cause |-> TRUE]

LoadSpecCatch(errno) == [code |-> "LOAD_ERROR", cause |-> errno # "ENOENT"]

\* the catch block of saveSpec: PERSIST_ERROR with the error as cause
SaveSpecCatch(errno) == [code |-> "PERSIST_ERROR", cause |-> TRUE]

\* saveSpecCatalog has no catch block: the error of fs.writeFile is thrown
\* as it is, and carries no SpecServiceError code
SaveSpecCatalogThrows(errno) == [code |-> errno, cause |-> FALSE]

\* loadSpec(specId) up to its first await: the cache answers, or the read of
\* the record is started
CallLoadSpec(p, specId) ==
    /\ pc[p] = "idle"
    /\ op' = [op EXCEPT ![p] = "loadSpec"]
    /\ pre' = [pre EXCEPT ![p] =
                  [catalog |-> catalog, specs |-> specs, specCache |-> specCache]]
    /\ LET cached == CacheGet(specCache, specId)
           entry == specCache[specId]
           called == [NoIo EXCEPT !.specId = specId, !.calledAt = now,
                                  !.hadEntry = entry # Null,
                                  !.entryAt = IF entry = Null THEN 0 ELSE entry.at]
       IN  IF cached # Null
           THEN /\ io' = [io EXCEPT ![p] = [called EXCEPT !.value = cached]]
                /\ Settle(p, "ok")
           ELSE /\ io' = [io EXCEPT ![p] = called]
                /\ pc' = [pc EXCEPT ![p] = "loadRead"]
                /\ result' = [result EXCEPT ![p] = "none"]
    /\ UNCHANGED <<specs, specCache, disk, tempCatalog, prev, StorageFrame>>

\* loadSpec throws what its catch block makes of errno
LoadSpecThrow(p, errno) ==
    /\ io' = [io EXCEPT ![p].errno = errno, ![p].read = TRUE,
                        ![p].cause = LoadSpecCatch(errno).cause]
    /\ Settle(p, LoadSpecCatch(errno).code)
    /\ UNCHANGED <<specs, specCache, disk, op, tempCatalog, pre, prev, StorageFrame>>

\* fs.readFile of the record completes: its contents, or ENOENT
LoadSpecRead(p) ==
    /\ pc[p] = "loadRead"
    /\ IF diskSpecs[io[p].specId] = Null
       THEN LoadSpecThrow(p, "ENOENT")
       ELSE /\ io' = [io EXCEPT ![p].value = diskSpecs[io[p].specId],
                                ![p].read = TRUE]
            /\ pc' = [pc EXCEPT ![p] = "loadResume"]
            /\ UNCHANGED <<specs, specCache, disk, op, result, tempCatalog, pre,
                           prev, StorageFrame>>

\* the read fails otherwise (EACCES, EIO, ...) or the record is no JSON
LoadSpecReadFail(p) ==
    /\ pc[p] = "loadRead"
    /\ LoadSpecThrow(p, "EIO")

\* loadSpec resumes after the read: the document is cached and returned
LoadSpecResume_NotCached(p) ==
    /\ pc[p] = "loadResume"
    /\ Settle(p, "ok")
    /\ UNCHANGED <<specs, specCache, disk, op, io, tempCatalog, pre, prev, StorageFrame>>

LoadSpecResume(p) ==
    /\ pc[p] = "loadResume"
    /\ specCache' = CacheSet(specCache, io[p].specId, io[p].value)
    /\ Settle(p, "ok")
    /\ UNCHANGED <<specs, disk, op, io, tempCatalog, pre, prev, StorageFrame>>

\* saveSpec(spec, specId) up to its first await
CallSaveSpec(p, specId, spec) ==
    /\ pc[p] = "idle"
    /\ op' = [op EXCEPT ![p] = "saveSpec"]
    /\ io' = [io EXCEPT ![p] = [NoIo EXCEPT !.specId = specId, !.doc = spec,
                                            !.calledAt = now]]
    /\ pc' = [pc EXCEPT ![p] = "saveWrite"]
    /\ result' = [result EXCEPT ![p] = "none"]
    /\ UNCHANGED <<specs, specCache, disk, tempCatalog, pre, prev, StorageFrame>>

\* fs.writeFile of the record completes
SaveSpecWrite(p) ==
    /\ pc[p] = "saveWrite"
    /\ diskSpecs' = [diskSpecs EXCEPT ![io[p].specId] = io[p].doc]
    /\ pc' = [pc EXCEPT ![p] = "saveResume"]
    /\ prev' = NoPrev
    /\ UNCHANGED <<specs, specCache, diskCatalog, op, result, io, tempCatalog, pre,
                   StorageFrame>>

\* ensureDirectory or fs.writeFile fails: the catch block of saveSpec
SaveSpecWriteFail(p) ==
    /\ pc[p] = "saveWrite"
    /\ io' = [io EXCEPT ![p].errno = "EIO", ![p].cause = SaveSpecCatch("EIO").cause]
    /\ Settle(p, SaveSpecCatch("EIO").code)
    /\ UNCHANGED <<specs, specCache, disk, op, tempCatalog, pre, prev, StorageFrame>>

\* saveSpec resumes after the write: this.specs and the cache are set
SaveSpecResume(p) ==
    /\ pc[p] = "saveResume"
    /\ specs' = SpecsAfterSave(specs, io[p].specId, io[p].doc)
    /\ specCache' = CacheSet(specCache, io[p].specId, io[p].doc)
    /\ Settle(p, "ok")
    /\ prev' = NoPrev
    /\ UNCHANGED <<disk, op, io, tempCatalog, pre, StorageFrame>>

\* saveSpecCatalog(catalog) up to its await: this.catalogPath is never empty
CallSaveSpecCatalog(p, cat) ==
    /\ pc[p] = "idle"
    /\ op' = [op EXCEPT ![p] = "saveSpecCatalog"]
    /\ io' = [io EXCEPT ![p] = [NoIo EXCEPT !.calledAt = now]]
    /\ tempCatalog' = [tempCatalog EXCEPT ![p] = cat]
    /\ pc' = [pc EXCEPT ![p] = "catalogWrite"]
    /\ result' = [result EXCEPT ![p] = "none"]
    /\ UNCHANGED <<specs, specCache, disk, pre, prev, StorageFrame>>

\* fs.writeFile of the catalog record completes
SaveSpecCatalogWrite(p) ==
    /\ pc[p] = "catalogWrite"
    /\ diskCatalog' = [exists |-> TRUE, entries |-> tempCatalog[p]]
    /\ Settle(p, "ok")
    /\ UNCHANGED <<specs, specCache, diskSpecs, op, io, tempCatalog, pre, prev,
                   StorageFrame>>

\* fs.writeFile of the catalog record fails
SaveSpecCatalogWriteFail(p) ==
    /\ pc[p] = "catalogWrite"
    /\ io' = [io EXCEPT ![p].errno = "EIO",
                        ![p].cause = SaveSpecCatalogThrows("EIO").cause]
    /\ Settle(p, SaveSpecCatalogThrows("EIO").code)
    /\ UNCHANGED <<specs, specCache, disk, op, tempCatalog, pre, prev, StorageFrame>>

\* the caller has taken the outcome of its storage call
Finish(p) ==
    /\ pc[p] = "done"
    /\ EndCall(p)
    /\ io' = [io EXCEPT ![p] = NoIo]
    /\ prev' = IF op[p] = "loadSpec" /\ result[p] = "ok"
                  /\ specCache[io[p].specId] # Null
               THEN [specId |-> io[p].specId, value |-> io[p].value,
                     cachedAt |-> specCache[io[p].specId].at]
               ELSE prev
    /\ UNCHANGED <<memory, disk, result, orphans, config, now, initialized, tool>>

\* a millisecond passes
Tick ==
    /\ now < MaxClock
    /\ now' = now + 1
    /\ UNCHANGED <<memory, disk, pc, op, result, locals, orphans, config, io, prev,
                   initialized, tool>>

\* ------------------------------------------------------------------------
\* Queries
\* ------------------------------------------------------------------------

\* getApiCatalog()
GetApiCatalog == catalog

\* a TypeError raised by a lookup
Throws == [kind |-> "throws"]

OperationUri(specId, operationId) == "apis://" \o specId \o "/operations/" \o operationId

SchemaUri(specId, schemaName) == "apis://" \o specId \o "/schemas/" \o schemaName

\* the (path, key, value) triples of a document in for-in order
PathItemKeys(spec) ==
    Flatten([i \in 1..Len(spec.paths) |->
        [j \in 1..Len(spec.paths[i].item) |->
            [path |-> spec.paths[i].path,
             method |-> spec.paths[i].item[j].key,
             val |-> spec.paths[i].item[j].val]]])

\* the loop of findOperationById over the triples from index i on: the
\* first operationId that matches; a null value throws when it is read
RECURSIVE FirstOperationById(_, _, _, _)
FirstOperationById(specId, keys, operationId, i) ==
    IF i > Len(keys) THEN Null
    ELSE IF keys[i].val.kind = "null" THEN Throws
    ELSE IF keys[i].val.kind = "operation" /\ keys[i].val.operationId = operationId
         THEN [kind |-> "result", path |-> keys[i].path, method |-> keys[i].method,
               operation |-> keys[i].val, specId |-> specId,
               uri |-> OperationUri(specId, operationId)]
         ELSE FirstOperationById(specId, keys, operationId, i + 1)

\* findOperationById(specId, operationId)
FindOperationById(specId, operationId) ==
    IF specs[specId] = Null THEN Null
    ELSE FirstOperationById(specId, PathItemKeys(specs[specId]), operationId, 1)

\* findOperationByPathAndMethod(specId, path, method)
FindOperationByPathAndMethod(specId, path, method) ==
    IF specs[specId] = Null THEN Null
    ELSE IF ~specs[specId].hasPaths THEN Throws
    ELSE LET keys == SelectSeq(PathItemKeys(specs[specId]),
                               LAMBDA k : k.path = path /\ k.method = method)
         IN  IF keys = << >> \/ keys[1].val.kind = "null" THEN Null
             ELSE [kind |-> "result", path |-> path, method |-> method,
                   operation |-> keys[1].val, specId |-> specId,
                   uri |-> OperationUri(specId,
                              IF keys[1].val.kind = "operation"
                              THEN keys[1].val.operationId ELSE Undefined)]

\* findSchemaByName(specId, schemaName)
FindSchemaByName(specId, schemaName) ==
    IF specs[specId] = Null THEN Null
    ELSE LET spec == specs[specId]
             found == IF spec.hasSchemas
                      THEN SelectSeq(spec.schemas, LAMBDA sch : sch.name = schemaName)
                      ELSE << >>
         IN  IF found = << >> THEN Null
             ELSE [kind |-> "result", name |-> schemaName,
                   description |-> found[1].description, schema |-> found[1],
                   uri |-> SchemaUri(specId, schemaName)]

\* the characters of the strings of the documents
Chars(text) ==
    CASE text = "listPets" -> <<"l", "i", "s", "t", "P", "e", "t", "s">>
      [] text = "List pets" -> <<"L", "i", "s", "t", " ", "p", "e", "t", "s">>
      [] text = "pets" -> <<"p", "e", "t", "s">>
      [] text = "createPet" -> <<"c", "r", "e", "a", "t", "e", "P", "e", "t">>
      [] text = "Pet" -> <<"P", "e", "t">>
      [] text = "A pet" -> <<"A", " ", "p", "e", "t">>
      [] text = "User" -> <<"U", "s", "e", "r">>
      [] text = "Order" -> <<"O", "r", "d", "e", "r">>
      [] OTHER -> << >>

LowerCaseLetters == <<"a", "c", "d", "e", "i", "l", "o", "p", "r", "s", "t", "u", "z">>

UpperCaseLetters == <<"A", "C", "D", "E", "I", "L", "O", "P", "R", "S", "T", "U", "Z">>

\* String.prototype.toLowerCase / toUpperCase, character by character
ToLowerCase(text) ==
    [i \in 1..Len(text) |->
        IF \E k \in 1..Len(UpperCaseLetters) : UpperCaseLetters[k] = text[i]
        THEN LowerCaseLetters[CHOOSE k \in 1..Len(UpperCaseLetters) :
                                  UpperCaseLetters[k] = text[i]]
        ELSE text[i]]

ToUpperCase(text) ==
    [i \in 1..Len(text) |->
        IF \E k \in 1..Len(LowerCaseLetters) : LowerCaseLetters[k] = text[i]
        THEN UpperCaseLetters[CHOOSE k \in 1..Len(LowerCaseLetters) :
                                  LowerCaseLetters[k] = text[i]]
        ELSE text[i]]

\* Array.prototype.join(" ")
RECURSIVE JoinSpace(_)
JoinSpace(parts) ==
    IF parts = << >> THEN << >>
    ELSE IF Len(parts) = 1 THEN Head(parts)
    ELSE Head(parts) \o <<" ">> \o JoinSpace(Tail(parts))

\* String.prototype.includes
Includes(text, query) ==
    \E i \in 0..(Len(text) - Len(query)) : SubSeq(text, i + 1, i + Len(query)) = query

\* Boolean(value) of an optional string
Truthy(value) == value # Undefined /\ value # ""

\* [operationId, summary, description, ...tags].filter(Boolean).join(" ")
\*     .toLowerCase()
SearchText(operation) ==
    LET fields == <<Property(operation, "operationId"), Property(operation, "summary"),
                    Property(operation, "description")>>
                      \o (IF operation.kind = "operation" THEN operation.tags ELSE << >>)
        kept == SelectSeq(fields, Truthy)
    IN  ToLowerCase(JoinSpace([i \in 1..Len(kept) |-> Chars(kept[i])]))

\* searchOperations: the catalog entries a call looks at
TargetSpecs(specId) ==
    IF Truthy(specId)
    THEN LET found == SelectSeq(catalog, LAMBDA entry : entry.uri.specId = specId)
         IN  IF found = << >> THEN << >> ELSE <<Head(found)>>
    ELSE catalog

\* searchOperations: the matches in the stored document of one catalog entry
SearchSpec(query, entry) ==
    LET specDoc == specs[entry.uri.specId]
    IN  IF specDoc = Null THEN << >>
        ELSE IF ~specDoc.hasPaths THEN << >>
        ELSE LET keys == SelectSeq(PathItemKeys(specDoc),
                            LAMBDA k : /\ ~IsStructuralKey(k.method)
                                       /\ k.val.kind # "null"
                                       /\ Includes(SearchText(k.val), ToLowerCase(query)))
             IN  [i \in 1..Len(keys) |->
                     [kind |-> "result", path |-> keys[i].path,
                      method |-> keys[i].method, operation |-> keys[i].val,
                      specId |-> entry.uri.specId,
                      uri |-> OperationUri(entry.uri.specId,
                                           Property(keys[i].val, "operationId"))]]

\* searchOperations(query, specId?)
SearchOperations(query, specId) ==
    LET targetSpecs == TargetSpecs(specId)
    IN  Flatten([i \in 1..Len(targetSpecs) |-> SearchSpec(query, targetSpecs[i])])

\* Fuse options: threshold 0.2, in hundredths; distance is left at the
\* default of the library, 100 characters
FuseThreshold == 20

FuseDistance == 100

\* the pattern matches a prefix of the text with at most `errors` edits
\* (a substituted, a missing or an additional character each count one)
RECURSIVE MatchesWithin(_, _, _)
MatchesWithin(pattern, text, errors) ==
    IF pattern = << >> THEN TRUE
    ELSE \/ /\ text # << >>
            /\ Head(pattern) = Head(text)
            /\ MatchesWithin(Tail(pattern), Tail(text), errors)
         \/ /\ errors > 0
            /\ \/ text # << >> /\ MatchesWithin(Tail(pattern), Tail(text), errors - 1)
               \/ MatchesWithin(Tail(pattern), text, errors - 1)
               \/ text # << >> /\ MatchesWithin(pattern, Tail(text), errors - 1)

\* Fuse's match of a pattern in one field, case folded: some occurrence with
\* e errors at location loc scores e / |pattern| + loc / distance, and the
\* field matches when a score is within the threshold
FuseIsMatch(text, query) ==
    LET pattern == ToLowerCase(query)
        field == ToLowerCase(text)
    IN  /\ pattern # << >>
        /\ \E loc \in 0..(Len(field) - 1) : \E e \in 0..(Len(pattern) - 1) :
              /\ 100 * e * FuseDistance + 100 * loc * Len(pattern)
                    <= FuseThreshold * Len(pattern) * FuseDistance
              /\ MatchesWithin(pattern, SubSeq(field, loc + 1, Len(field)), e)

\* searchSchemas: the candidates, every schema of the catalog entries in
\* scope annotated with the entry's specId
SchemaEntries(specId) ==
    LET targetSpecs == TargetSpecs(specId)
    IN  Flatten([i \in 1..Len(targetSpecs) |->
            [j \in 1..Len(targetSpecs[i].schemas) |->
                [name |-> targetSpecs[i].schemas[j].name,
                 description |-> targetSpecs[i].schemas[j].description,
                 specId |-> targetSpecs[i].uri.specId]]])

\* searchSchemas(query, specId?): the candidates one of whose keys, name or
\* description, matches; a key without a value is not searched. The value is
\* the set of the entries returned, the order Fuse ranks them in left out.
SearchSchemas(query, specId) ==
    {entry \in Range(SchemaEntries(specId)) :
        \/ Truthy(entry.name) /\ FuseIsMatch(Chars(entry.name), query)
        \/ Truthy(entry.description) /\ FuseIsMatch(Chars(entry.description), query)}

\* ------------------------------------------------------------------------
\* McpService: the remote calls (src/src/McpService.ts, setUpTools)
\* ------------------------------------------------------------------------

\* what a handler returns: { content: [{ type: "text", text }] }
Acknowledgment == [kind |-> "content", text |-> "API catalog refreshed"]

\* { content: [{ type: "text", text: stringify(value, { indent: 2 }) }] }
Serialized(value) == [kind |-> "content", yaml |-> value]

\* the handler's catch block logs and throws the error again
Thrown(error) == [kind |-> "error", error |-> error]

\* the reply of a point-lookup handler to what the lookup returned
LookupReply(found) ==
    IF found = Throws THEN Thrown("TypeError") ELSE Serialized(found)

\* the frame of a remote call that only reads the service
ToolFrame ==
    <<memory, disk, pc, op, result, locals, orphans, config, now, io, prev,
      initialized>>

\* refresh-api-catalog arrives: the handler calls this.specExplorer.refresh(),
\* which runs initialize() or, with an empty folderPath, throws
ToolRefresh(p) ==
    /\ pc[p] = "idle"
    /\ tool[p] = NoTool
    /\ tool' = [tool EXCEPT ![p] = [NoTool EXCEPT !.name = "refresh-api-catalog"]]
    /\ op' = [op EXCEPT ![p] = "refresh"]
    /\ IF config.basePath # ""
       THEN /\ pc' = [pc EXCEPT ![p] = "ensureDirs"]
            /\ result' = [result EXCEPT ![p] = "none"]
       ELSE /\ pc' = [pc EXCEPT ![p] = "done"]
            /\ result' = [result EXCEPT ![p] = NotInitialized]
    /\ UNCHANGED <<memory, disk, locals, orphans, config, now, io, prev, initialized>>

\* await this.specExplorer.refresh() has settled: the acknowledgment is
\* returned, or the catch block throws the error of refresh()
ToolRefreshReply(p) ==
    /\ tool[p].name = "refresh-api-catalog"
    /\ tool[p].reply.kind = "none"
    /\ pc[p] \in {"idle", "done"}
    /\ result[p] # "none"
    /\ tool' = [tool EXCEPT ![p].reply =
                    IF result[p] = "ok" THEN Acknowledgment ELSE Thrown(result[p])]
    /\ UNCHANGED ToolFrame

\* load-api-operation-by-operationId
ToolLoadOperationById(p, specId, operationId) ==
    /\ pc[p] = "idle"
    /\ tool[p] = NoTool
    /\ tool' = [tool EXCEPT ![p] =
                    [name |-> "load-api-operation-by-operationId",
                     args |-> <<specId, operationId>>,
                     reply |-> LookupReply(FindOperationById(specId, operationId))]]
    /\ UNCHANGED ToolFrame

\* load-api-operation-by-path-and-method
ToolLoadOperationByPathAndMethod(p, specId, path, method) ==
    /\ pc[p] = "idle"
    /\ tool[p] = NoTool
    /\ tool' = [tool EXCEPT ![p] =
                    [name |-> "load-api-operation-by-path-and-method",
                     args |-> <<specId, path, method>>,
                     reply |-> LookupReply(
                                  FindOperationByPathAndMethod(specId, path, method))]]
    /\ UNCHANGED ToolFrame

\* load-api-schema-by-schemaName
ToolLoadSchemaByName(p, specId, schemaName) ==
    /\ pc[p] = "idle"
    /\ tool[p] = NoTool
    /\ tool' = [tool EXCEPT ![p] =
                    [name |-> "load-api-schema-by-schemaName",
                     args |-> <<specId, schemaName>>,
                     reply |-> LookupReply(FindSchemaByName(specId, schemaName))]]
    /\ UNCHANGED ToolFrame

\* new McpService(specExplorer): the constructor starts initializeExplorer(),
\* which awaits this.specExplorer.initialize(), and does not await it
McpServiceConstructor(p) ==
    /\ ~initialized
    /\ pc[p] = "idle"
    /\ pc' = [pc EXCEPT ![p] = "ensureDirs"]
    /\ op' = [op EXCEPT ![p] = "initialize"]
    /\ result' = [result EXCEPT ![p] = "none"]
    /\ initialized' = TRUE
    /\ UNCHANGED <<memory, disk, locals, orphans, config, now, io, prev, tool>>

\* the client has received the reply of its remote call
ToolDone(p) ==
    /\ tool[p].reply.kind # "none"
    /\ tool' = [tool EXCEPT ![p] = NoTool]
    /\ EndCall(p)
    /\ UNCHANGED <<memory, disk, result, orphans, config, now, io, prev, initialized>>

\* ------------------------------------------------------------------------
\* Specifications
\* ------------------------------------------------------------------------

\* no call is running and no promise of an earlier call is left
Quiescent == orphans = {} /\ \A p \in Procs : pc[p] = "idle"

\* caller p issues a call
Call(p) ==
    \/ CallInitialize(p)
    \/ CallRefresh(p)
    \/ CallScanAndSave(p)

\* the steps of caller p's call, the scanner yielding items of `items`
Step(p, items, stores) ==
    \/ EnsureDirectories(p)
    \/ LoadSpecCatalog(p)
    \/ \E i \in 1..MaxScan : ReadSpec(p, i)
    \/ BeginScan(p, stores)
    \/ \E item \in items : ScanYield(p, item)
    \/ ScanEnd(p)
    \/ CommitEnsureDirectories(p)
    \/ \E i \in 1..MaxScan : SaveSpec(p, i)
    \/ SaveSpecCatalog(p)
    \/ Return(p)

\* the steps in which the storage or the scanner fails, and what follows
FailStep(p) ==
    \/ EnsureDirectoriesFail(p)
    \/ LoadSpecCatalogFail(p)
    \/ \E i \in 1..MaxScan : ReadSpecFail(p, i)
    \/ ScanThrow(p)
    \/ CommitEnsureDirectoriesFail(p)
    \/ \E i \in 1..MaxScan : SaveSpecFail(p, i)
    \/ SaveSpecCatalogFail(p)
    \/ ScanAndSaveRaise(p)
    \/ InitializeRaise(p)

Background ==
    \/ \E o \in orphans : OrphanSave(o)
    \/ \E o \in orphans : OrphanLoad(o)
    \/ \E o \in orphans : OrphanFail(o)

\* calls may overlap each other and the promises an earlier call left
Next ==
    \/ \E p \in Procs : Call(p) \/ Step(p, FaultRunItems, FALSE) \/ FailStep(p)
    \/ Background
    \/ Restart

Spec == Init /\ [][Next]_vars

\* calls run one at a time: a call is issued once the work of the earlier
\* ones has settled
NextSeq ==
    \/ \E p \in SeqProcs :
          (Quiescent /\ Call(p)) \/ Step(p, FaultRunItems, FALSE) \/ FailStep(p)
    \/ Background
    \/ Restart

SpecSeq == Init /\ [][NextSeq]_vars

\* SpecSeq, pre recording the SpecStore and the Cache as well
NextSnap ==
    \/ \E p \in SeqProcs :
          (Quiescent /\ Call(p)) \/ Step(p, FaultRunItems, TRUE) \/ FailStep(p)
    \/ Background
    \/ Restart

SpecSnap == Init /\ [][NextSnap]_vars

\* calls run one at a time and neither the storage nor the scanner fails;
\* the scanner yields every kind of item
NextBuild ==
    \/ \E p \in SeqProcs : (Quiescent /\ Call(p)) \/ Step(p, ScanItems, FALSE)
    \/ Restart

SpecBuild == Init /\ [][NextBuild]_vars

\* the specIds and the catalogs of the storage calls
StorageIds == {"a"}

StorageCatalogs == {<< >>, <<CatalogEntry("a", DocV1)>>}

\* the configurations: no cache TTL, or one of 0, 1 or 2 milliseconds
Configs == {[basePath |-> "specs", ttl |-> t] : t \in {NotSet, Ms(0), Ms(1), Ms(2)}}

\* caller p issues a storage call
StorageCall(p) ==
    \/ \E s \in StorageIds : CallLoadSpec(p, s)
    \/ \E s \in StorageIds : \E d \in GoodDocs : CallSaveSpec(p, s, d)
    \/ \E cat \in StorageCatalogs : CallSaveSpecCatalog(p, cat)

\* the steps of caller p's storage call
StorageStep(p) ==
    \/ LoadSpecRead(p)
    \/ LoadSpecReadFail(p)
    \/ LoadSpecResume(p)
    \/ SaveSpecWrite(p)
    \/ SaveSpecWriteFail(p)
    \/ SaveSpecResume(p)
    \/ SaveSpecCatalogWrite(p)
    \/ SaveSpecCatalogWriteFail(p)
    \/ Finish(p)

\* storage calls run one at a time under any of the configurations, while
\* the clock advances and the service may be restarted
NextStorage ==
    \/ \E p \in SeqProcs : (Quiescent /\ StorageCall(p)) \/ StorageStep(p)
    \/ Tick
    \/ Restart

SpecStorage == (\E c \in Configs : InitWith(c)) /\ [][NextStorage]_vars

\* loadSpec and saveSpec calls of several callers overlap: between the
\* completion of a read or write and the resumption of the call that awaits
\* it, other calls run
NextRace ==
    \/ \E p \in Procs :
          \/ \E s \in StorageIds : CallLoadSpec(p, s)
          \/ \E s \in StorageIds : \E d \in GoodDocs : CallSaveSpec(p, s, d)
          \/ LoadSpecRead(p)
          \/ LoadSpecResume(p)
          \/ SaveSpecWrite(p)
          \/ SaveSpecResume(p)
          \/ Finish(p)
    \/ Restart

SpecRace == Init /\ [][NextRace]_vars

\* the base paths a service is constructed with
BasePaths == {"specs", ""}

\* the documents of the source in the runs about the lifecycle
LifeItems == ItemsOf({DocV1})

\* CallInitialize, recording that a caller has run initialize()
Initialize(p) ==
    /\ pc[p] = "idle"
    /\ pc' = [pc EXCEPT ![p] = "ensureDirs"]
    /\ op' = [op EXCEPT ![p] = "initialize"]
    /\ result' = [result EXCEPT ![p] = "none"]
    /\ initialized' = TRUE
    /\ UNCHANGED <<memory, disk, locals, orphans, config, now, io, prev, tool>>

\* the lifecycle of a service constructed with any base path: initialize,
\* refresh and scanAndSave calls one at a time, no failure of the storage
NextLife ==
    \/ \E p \in SeqProcs :
          \/ Quiescent /\ Initialize(p)
          \/ Quiescent /\ CallRefresh(p)
          \/ Quiescent /\ RefreshThrow(p)
          \/ Quiescent /\ CallScanAndSave(p)
          \/ Step(p, LifeItems, FALSE)
          \/ Finish(p)
    \/ Restart

SpecLife ==
    (\E b \in BasePaths : InitWith([DefaultConfig EXCEPT !.basePath = b]))
        /\ [][NextLife]_vars

\* the steps in which the load of the persisted catalog or of one of its
\* documents fails
LoadFailStep(p) ==
    \/ LoadSpecCatalogFail(p)
    \/ \E i \in 1..MaxScan : ReadSpecFail(p, i)

\* calls run one at a time; the load of the persisted state may fail, the
\* creation of the directories and the build do not
NextRecover ==
    \/ \E p \in SeqProcs :
          (Quiescent /\ Call(p)) \/ Step(p, FaultRunItems, FALSE) \/ LoadFailStep(p)
    \/ \E o \in orphans : OrphanLoad(o)
    \/ \E o \in orphans : OrphanFail(o)
    \/ Restart

SpecRecover == Init /\ [][NextRecover]_vars

\* builds over sources that hold documents of every shape, one call at a
\* time and without failures
NextShapes ==
    \/ \E p \in SeqProcs : (Quiescent /\ Call(p)) \/ Step(p, ItemsOf(ShapeDocs), FALSE)
    \/ Restart

SpecShapes == Init /\ [][NextShapes]_vars

\* builds over sources whose documents declare component schemas, one call
\* at a time and without failures
NextSchemas ==
    \/ \E p \in SeqProcs : (Quiescent /\ Call(p)) \/ Step(p, ItemsOf(SchemaDocs), FALSE)
    \/ Restart

SpecSchemas == Init /\ [][NextSchemas]_vars

\* builds over sources whose path items carry operations, structural keys
\* and a summary, one call at a time and without failures
NextExtract ==
    \/ \E p \in SeqProcs : (Quiescent /\ Call(p)) \/ Step(p, ItemsOf(ExtractDocs), FALSE)
    \/ Restart

SpecExtract == Init /\ [][NextExtract]_vars

\* the documents of the source in the runs about termination
FairItems == ItemsOf({DocV1})

\* calls run one at a time; the storage and the scanner may fail at every
\* step, and promises a rejected Promise.all left behind run on
NextFair ==
    \/ \E p \in SeqProcs :
          (Quiescent /\ Call(p)) \/ Step(p, FairItems, FALSE) \/ FailStep(p)
    \/ Background

\* the scanner's sequence ends and every storage operation a call awaits
\* completes or fails: a call that can take a step eventually takes one.
\* Nothing is assumed of the promises left behind.
Fairness == \A p \in SeqProcs : WF_vars(Step(p, FairItems, FALSE) \/ FailStep(p))

SpecFair == Init /\ [][NextFair]_vars /\ Fairness

\* the documents of the sources and the arguments of the remote calls
ToolItems == ItemsOf({DocV1, DocNoPaths})

ToolOperationIds == {"listPets", "noSuchOperation"}

ToolPaths == {"/pets", "/none"}

ToolMethods == {"get", "delete"}

ToolSchemaNames == {"Pet", "NoSuchSchema"}

\* no remote call is open and nothing is running
NoToolOpen == Quiescent /\ \A p \in Procs : tool[p] = NoTool

\* a client makes remote calls one at a time on a service constructed with
\* any base path; the directories, the scanner and the catalog write may fail
NextTool ==
    \/ \E p \in SeqProcs :
          \/ NoToolOpen /\ ToolRefresh(p)
          \/ \E s \in SpecIds : \E id \in ToolOperationIds :
                NoToolOpen /\ ToolLoadOperationById(p, s, id)
          \/ \E s \in SpecIds : \E path \in ToolPaths : \E method \in ToolMethods :
                NoToolOpen /\ ToolLoadOperationByPathAndMethod(p, s, path, method)
          \/ \E s \in SpecIds : \E name \in ToolSchemaNames :
                NoToolOpen /\ ToolLoadSchemaByName(p, s, name)
          \/ ToolRefreshReply(p)
          \/ ToolDone(p)
          \/ Step(p, ToolItems, FALSE)
          \/ EnsureDirectoriesFail(p)
          \/ ScanThrow(p)
          \/ SaveSpecCatalogFail(p)
          \/ InitializeRaise(p)
    \/ Restart

SpecTool ==
    (\E b \in BasePaths : InitWith([DefaultConfig EXCEPT !.basePath = b]))
        /\ [][NextTool]_vars

\* the caller that is the McpService constructor, and the client
Constructor == 1

Client == 2

\* the source while calls overlap: it does not change, both scans find the
\* same document
OverlapItems == {[specId |-> "a", spec |-> DocV1, error |-> FALSE]}

\* the initialize() the constructor started and a refresh-api-catalog call
\* of the client run in one process, their steps interleaved at the awaits;
\* the directories and the scanner may fail
NextOverlap ==
    \/ McpServiceConstructor(Constructor)
    \/ ToolRefresh(Client)
    \/ ToolRefreshReply(Client)
    \/ ToolDone(Client)
    \/ \E p \in Procs :
          \/ Step(p, OverlapItems, FALSE)
          \/ EnsureDirectoriesFail(p)
          \/ ScanThrow(p)
          \/ InitializeRaise(p)
    \/ Restart

SpecOverlap == Init /\ [][NextOverlap]_vars

\* ------------------------------------------------------------------------
\* Claims
\* ------------------------------------------------------------------------

CatalogIds(cat) == {cat[i].uri.specId : i \in 1..Len(cat)}

Stored(store) == {s \in SpecIds : store[s] # Null}

\* caller p's most recent call has succeeded and no call of p is running
Succeeded(p) == pc[p] \in {"idle", "returned"} /\ result[p] = "ok"

\* the probes of the point lookups
ProbeOperationIds == {"listPets", "createPet", "noSuchOperation"}

ProbePaths == {"/pets", "/none"}

ProbeMethods == {"get", "post", "delete"}

ProbeSchemaNames == {"Pet", "NoSuchSchema"}

\* C1: with calls run one at a time, whenever the most recent call
\* succeeded every entry of the in-memory Catalog has its specId as a key of
\* the in-memory SpecStore.
C1_CatalogEntriesStored ==
    \A p \in SeqProcs :
        Succeeded(p) => CatalogIds(GetApiCatalog) \subseteq Stored(specs)

\* a build has succeeded with two documents of different specIds catalogued
C1_Witness ==
    \E p \in SeqProcs :
        /\ Succeeded(p)
        /\ Len(catalog) = 2
        /\ CatalogIds(catalog) = SpecIds

NoDuplicateIds(cat) ==
    \A i, j \in 1..Len(cat) : i # j => cat[i].uri.specId # cat[j].uri.specId

\* C2: after a successful build the SpecStore holds exactly as many documents
\* as the Catalog has entries, none of them under a specId that has no entry
\* in the Catalog. (The count is compared for the Catalogs without a
\* repeated specId, which are the subject of C10.)
C2_StoreMatchesCatalog ==
    \A p \in SeqProcs :
        Succeeded(p) =>
            /\ NoDuplicateIds(catalog) => Cardinality(Stored(specs)) = Len(catalog)
            /\ Stored(specs) \subseteq CatalogIds(catalog)

\* C3: when the commit phase of scanAndSave throws after documents were
\* written, the build fails with SCAN_ERROR and getApiCatalog() returns the
\* Catalog it returned before the build.
C3_FailedCommitKeepsCatalog ==
    \A p \in SeqProcs :
        (pc[p] = "scanThrown" /\ fault[p] = "storage" /\ saved[p] # {}) =>
            /\ result[p] = "SCAN_ERROR"
            /\ GetApiCatalog = pre[p].catalog

\* a commit has thrown after a write, the Catalog of an earlier build being
\* another than the one the failed build had assembled
C3_Witness ==
    \E p \in SeqProcs :
        /\ pc[p] = "scanThrown"
        /\ fault[p] = "storage"
        /\ saved[p] # {}
        /\ pre[p].catalog # << >>
        /\ tempCatalog[p] # pre[p].catalog

\* C4: a scanAndSave whose commit phase throws leaves the in-memory SpecStore
\* and the Cache as they were before the call.
C4_FailedCommitKeepsStores ==
    \A p \in SeqProcs :
        (pc[p] = "scanThrown" /\ fault[p] = "storage") =>
            /\ specs = pre[p].specs
            /\ specCache = pre[p].specCache

\* C5: from the moment initialize() or refresh() has raised INIT_ERROR until
\* the next call starts, the Catalog, the SpecStore and the Cache are empty.
C5_FailedInitializeLeavesEmpty ==
    \A p \in SeqProcs :
        (pc[p] = "idle" /\ result[p] = "INIT_ERROR") =>
            /\ GetApiCatalog = << >>
            /\ specs = EmptyStore
            /\ specCache = EmptyStore

\* C6: while a refresh() is in progress every query observes a Catalog and a
\* SpecStore of one completed build: every Catalog entry has a document in
\* the SpecStore, and the stored document of a catalogued specId is the
\* document a Catalog entry was extracted from.
C6_RefreshShowsOneBuild ==
    \A p \in SeqProcs :
        (op[p] = "refresh" /\ pc[p] \notin {"idle", "returned"}) =>
            /\ CatalogIds(catalog) \subseteq Stored(specs)
            /\ \A s \in CatalogIds(catalog) \cap Stored(specs) :
                  \E i \in 1..Len(catalog) : catalog[i] = CatalogEntry(s, specs[s])

\* C7: in every state, in the middle of a build and after a crash included,
\* every entry of the in-memory Catalog and every entry of the durable
\* catalog record has a durable document record.
C7_CataloguedDocumentsDurable ==
    /\ CatalogIds(GetApiCatalog) \subseteq Stored(diskSpecs)
    /\ CatalogIds(diskCatalog.entries) \subseteq Stored(diskSpecs)

\* a commit is half way: a document is written that the Catalog of the
\* earlier build does not hold, and another write is outstanding
C7_Witness ==
    \E p \in SeqProcs :
        /\ pc[p] = "saving"
        /\ saved[p] # {}
        /\ PendingSaves(p) # {}
        /\ catalog # << >>
        /\ diskCatalog.entries # << >>
        /\ Stored(diskSpecs) \ CatalogIds(catalog) # {}

\* the entries of the scanned items that have no error and whose extraction
\* does not throw, in scan order
RECURSIVE GoodEntries(_)
GoodEntries(items) ==
    IF items = << >> THEN << >>
    ELSE IF Head(items).error \/ ExtractThrows(Head(items).spec)
         THEN GoodEntries(Tail(items))
         ELSE <<CatalogEntry(Head(items).specId, Head(items).spec)>>
                 \o GoodEntries(Tail(items))

FailingItems(items) ==
    {i \in 1..Len(items) : items[i].error \/ ExtractThrows(items[i].spec)}

\* C8: without a storage failure the build succeeds and the new Catalog holds
\* one entry for each scanned item that has no error and whose extraction did
\* not throw: n scanned items with k failing ones give n - k entries.
C8_CatalogIsGoodItems ==
    \A p \in SeqProcs :
        /\ pc[p] # "scanThrown"
        /\ result[p] \in {"none", "ok"}
        /\ pc[p] = "returned" =>
              /\ IsPermutation(GetApiCatalog, GoodEntries(scanned[p]))
              /\ Len(GetApiCatalog) =
                    Len(scanned[p]) - Cardinality(FailingItems(scanned[p]))

\* a build has returned that scanned an item with error set, a document
\* whose extraction throws, or both, next to a document that is kept
C8_Witness ==
    \E p \in SeqProcs :
        /\ pc[p] = "returned"
        /\ Len(scanned[p]) = MaxScan
        /\ FailingItems(scanned[p]) # {}
        /\ Len(catalog) >= 1

\* C9: after a successful build every point lookup under a specId that has
\* no entry in the Catalog returns null and does not throw.
C9_AbsentSpecLookupsNull ==
    \A p \in SeqProcs :
        Succeeded(p) =>
            \A s \in SpecIds \ CatalogIds(catalog) :
                /\ \A id \in ProbeOperationIds : FindOperationById(s, id) = Null
                /\ \A path \in ProbePaths : \A method \in ProbeMethods :
                      FindOperationByPathAndMethod(s, path, method) = Null
                /\ \A name \in ProbeSchemaNames : FindSchemaByName(s, name) = Null

\* C10: no two entries of a Catalog produced by a build have the same specId.
C10_UniqueSpecIds ==
    \A p \in SeqProcs :
        Succeeded(p) => NoDuplicateIds(GetApiCatalog)

\* the cache TTL the configuration asks for: the one it sets, or the default
ConfiguredTtl == IF config.ttl.set THEN config.ttl.ms ELSE DefaultTtl

\* caller p's loadSpec has returned a document
LoadReturned(p) == pc[p] = "done" /\ op[p] = "loadSpec" /\ result[p] = "ok"

\* C11: of two consecutive loadSpec calls for one specId, the TTL of the
\* cached document not elapsed when the second is issued and no write in
\* between, the second returns the document the first returned and reads no
\* storage; a loadSpec that misses the cache reads storage, returns the
\* document storage holds and leaves it in the Cache.
C11_LoadSpecCacheServed ==
    \A p \in SeqProcs :
        LoadReturned(p) =>
            /\ (/\ prev.specId = io[p].specId
                /\ io[p].calledAt - prev.cachedAt <= ConfiguredTtl)
                  => (io[p].value = prev.value /\ ~io[p].read)
            /\ io[p].read =>
                  /\ io[p].value = diskSpecs[io[p].specId]
                  /\ specCache[io[p].specId] # Null
                  /\ specCache[io[p].specId].value = io[p].value

\* a second loadSpec has returned within the TTL after a first one that
\* missed the cache: the service was restarted over a persisted document
C11_Witness ==
    \E p \in SeqProcs :
        /\ LoadReturned(p)
        /\ prev.specId = io[p].specId
        /\ io[p].calledAt - prev.cachedAt <= ConfiguredTtl
        /\ io[p].calledAt > prev.cachedAt
        /\ specs[io[p].specId] = Null
        /\ ~io[p].read

\* C12: under every configured TTL, 0 included, a loadSpec issued more than
\* ttl milliseconds after the document was put in the Cache does not return
\* the cached document: it reads storage.
C12_ExpiredEntryRereads ==
    \A p \in SeqProcs :
        (/\ LoadReturned(p)
         /\ io[p].hadEntry
         /\ io[p].calledAt - io[p].entryAt > ConfiguredTtl)
            => io[p].read

\* C13: once every loadSpec and saveSpec call has completed, a document the
\* Cache returns for a specId is the document durable storage holds for it.
C13_CacheCoherent ==
    (\A p \in Procs : pc[p] = "idle") =>
        \A s \in SpecIds :
            CacheGet(specCache, s) # Null => CacheGet(specCache, s) = diskSpecs[s]

\* C14: a refresh() on a service on which no initialize() has been run is
\* rejected with the 'not initialized' error and runs no build; a refresh()
\* after an initialize() is not rejected and runs the initialize path.
C14_RefreshNeedsInitialize ==
    \A p \in SeqProcs :
        op[p] = "refresh" =>
            IF initialized
            THEN result[p] # NotInitialized
            ELSE pc[p] = "done" /\ result[p] = NotInitialized

\* C15: when neither the creation of the directories nor the build fails,
\* no call ends with an error, whatever fails while the persisted catalog and
\* its documents are loaded; the step in which the load fails leaves the
\* Catalog, the SpecStore and the Cache empty and goes on to the build; and a
\* store without a catalog record loads as an empty Catalog.
C15_LoadFailureNotFatal ==
    [][\A p \in SeqProcs :
          /\ result'[p] \in {"none", "ok"}
          /\ (fault[p] # "load" /\ fault'[p] = "load") =>
                /\ catalog' = << >>
                /\ specs' = EmptyStore
                /\ specCache' = EmptyStore
                /\ pc'[p] = "scanEntry"
          /\ (/\ pc[p] = "loadCatalog"
              /\ pc'[p] \notin {"loadCatalog", "idle"}
              /\ ~diskCatalog.exists
              /\ fault'[p] # "load") =>
                /\ catalog' = << >>
                /\ pc'[p] = "scanEntry"]_vars

\* an initialize() or refresh() has succeeded with a non-empty Catalog
\* although its load of the state an earlier build persisted had failed
C15_Witness ==
    \E p \in SeqProcs :
        /\ pc[p] = "returned"
        /\ op[p] \in {"initialize", "refresh"}
        /\ result[p] = "ok"
        /\ fault[p] = "load"
        /\ catalog # << >>
        /\ Stored(diskSpecs) \ CatalogIds(catalog) # {}

\* what a document holds
HasOperationId(doc, operationId) ==
    \E k \in Range(PathItemKeys(doc)) :
        k.val.kind = "operation" /\ k.val.operationId = operationId

HasOperationAt(doc, path, method) ==
    \E k \in Range(PathItemKeys(doc)) :
        k.path = path /\ k.method = method /\ k.val.kind = "operation"

HasSchema(doc, name) ==
    doc.hasSchemas /\ \E i \in 1..Len(doc.schemas) : doc.schemas[i].name = name

\* C16: for every document in the SpecStore, whatever its shape, a point
\* lookup of an operationId, of a path and method, or of a schema name that
\* the document does not hold returns null and does not throw.
C16_MissingTargetIsNull ==
    \A s \in Stored(specs) :
        /\ \A id \in ProbeOperationIds :
              ~HasOperationId(specs[s], id) => FindOperationById(s, id) = Null
        /\ \A path \in ProbePaths : \A method \in ProbeMethods :
              ~HasOperationAt(specs[s], path, method)
                  => FindOperationByPathAndMethod(s, path, method) = Null
        /\ \A name \in ProbeSchemaNames :
              ~HasSchema(specs[s], name) => FindSchemaByName(s, name) = Null

\* caller p's storage call has failed
CallFailed(p, name) == pc[p] = "done" /\ op[p] = name /\ io[p].errno # "none"

\* C17: a saveSpec whose write fails raises PERSIST_ERROR carrying the cause,
\* and a saveSpecCatalog whose write fails raises PERSIST_ERROR.
C17_FailedWriteIsPersistError ==
    \A p \in SeqProcs :
        /\ CallFailed(p, "saveSpec") => (result[p] = "PERSIST_ERROR" /\ io[p].cause)
        /\ CallFailed(p, "saveSpecCatalog") => result[p] = "PERSIST_ERROR"

\* C18: a loadSpec that misses the cache and fails raises LOAD_ERROR, without
\* a cause when there is no record of the document and with the cause when
\* the record cannot be read or parsed, and leaves the Cache and the
\* SpecStore as they were when it was called.
C18_LoadErrorDistinguished ==
    \A p \in SeqProcs :
        CallFailed(p, "loadSpec") =>
            /\ result[p] = "LOAD_ERROR"
            /\ io[p].errno = "ENOENT" => ~io[p].cause
            /\ io[p].errno # "ENOENT" => io[p].cause
            /\ io[p].errno = "ENOENT" => diskSpecs[io[p].specId] = Null
            /\ specCache = pre[p].specCache
            /\ specs = pre[p].specs

\* a loadSpec has failed on a persisted document whose cache entry had
\* expired: the read found the record and could not read or parse it
C18_Witness ==
    \E p \in SeqProcs :
        /\ CallFailed(p, "loadSpec")
        /\ io[p].errno # "ENOENT"
        /\ diskSpecs[io[p].specId] # Null
        /\ io[p].hadEntry

\* the queries and the specId arguments of the searches: a specId of the
\* sources, none (undefined), and one no source has
Queries ==
    {<<"p", "e", "t">>, <<"P", "e", "t">>, <<"l", "i", "s", "t", " ", "p">>,
     <<"c", "r", "e", "a", "t", "e">>, <<"z">>, << >>}

ProbeSpecIds == SpecIds \cup {Undefined, "zz"}

\* the document a catalog entry was extracted from
DocOf(entry) == CHOOSE d \in GoodDocs : CatalogEntry(entry.uri.specId, d) = entry

\* the catalog entries in scope: the entry of specId, or every entry when no
\* specId is given
InScope(specId) ==
    IF specId = Undefined THEN catalog
    ELSE LET found == SelectSeq(catalog, LAMBDA entry : entry.uri.specId = specId)
         IN  IF found = << >> THEN << >> ELSE <<Head(found)>>

\* the operations of one entry's document whose corpus contains the query,
\* both in upper case, in the document's path and method order
MatchesOf(query, entry) ==
    LET ops == SelectSeq(PathItemKeys(DocOf(entry)),
                  LAMBDA k : /\ k.val.kind = "operation"
                             /\ Includes(ToUpperCase(SearchText(k.val)),
                                         ToUpperCase(query)))
    IN  [i \in 1..Len(ops) |->
            [specId |-> entry.uri.specId, path |-> ops[i].path,
             method |-> ops[i].method, operationId |-> ops[i].val.operationId]]

Found(results) ==
    [i \in 1..Len(results) |->
        [specId |-> results[i].specId, path |-> results[i].path,
         method |-> results[i].method, operationId |-> results[i].operation.operationId]]

\* C19: after a successful build searchOperations(query, specId) returns the
\* operations of the catalog entries in scope (the entry of specId, every
\* entry when no specId is given, none when the Catalog has no such entry)
\* whose case-folded corpus contains the case-folded query, in document order
\* and the specs in Catalog order; the upper-cased query gives the same.
C19_SearchOperationsExact ==
    \A p \in SeqProcs :
        Succeeded(p) =>
            \A query \in Queries : \A specId \in ProbeSpecIds :
                /\ Found(SearchOperations(query, specId)) =
                      LET scope == InScope(specId)
                      IN  Flatten([i \in 1..Len(scope) |-> MatchesOf(query, scope[i])])
                /\ SearchOperations(ToUpperCase(query), specId) =
                      SearchOperations(query, specId)

\* the keys a caller may pass as the method: HTTP methods as the documents
\* spell them, one in upper case, and a structural key
ProbeKeys == ProbeMethods \cup {"GET", "parameters"}

\* the operation a document has at a path under a method
OperationAt(doc, path, method) ==
    (CHOOSE k \in Range(PathItemKeys(doc)) :
        k.path = path /\ k.method = method /\ k.val.kind = "operation").val

\* C20: findOperationByPathAndMethod(specId, path, method) on a stored
\* document returns a result exactly when the document has an operation at
\* that path under that method, spelled as stored, and the result's uri is
\* apis://{specId}/operations/{operationId} of that operation; a structural
\* key of the path item (parameters, $ref) is no operation.
C20_PathAndMethodExact ==
    \A s \in Stored(specs) : \A path \in ProbePaths : \A method \in ProbeKeys :
        LET found == FindOperationByPathAndMethod(s, path, method)
        IN  IF HasOperationAt(specs[s], path, method)
            THEN /\ found # Null
                 /\ found.uri = "apis://" \o s \o "/operations/"
                                   \o OperationAt(specs[s], path, method).operationId
            ELSE found = Null

\* the queries of the schema searches
Ussr == <<"U", "s", "s", "r">>

Ordor == <<"O", "r", "d", "o", "r">>

Names(entries) == {entry.name : entry \in entries}

\* C21: searchSchemas returns the candidates whose name or description is
\* similar to the query within the fixed threshold: when the schemas in scope
\* are named User and Order, the query 'Ussr' returns User and does not
\* return Order.
C21_UssrFindsUser ==
    \A p \in SeqProcs :
        (Succeeded(p) /\ {"User", "Order"} \subseteq Names(Range(SchemaEntries(Undefined))))
            => /\ "User" \in Names(SearchSchemas(Ussr, Undefined))
               /\ "Order" \notin Names(SearchSchemas(Ussr, Undefined))

\* the HTTP methods a path item may carry an operation under
HttpMethods == {"get", "put", "post", "delete", "options", "head", "patch", "trace"}

\* the (path, method) pairs of a document
MethodPairs(doc) ==
    {<<k.path, k.method>> : k \in {x \in Range(PathItemKeys(doc)) : x.method \in HttpMethods}}

\* C22: the entry extracted from a scanned document has exactly one
\* OperationEntry per (path, HTTP method) pair of the document and none for
\* any other key of a path item; the group of an entry is the first tag of
\* its operation, absent when the operation has no tags; and there is one
\* SchemaEntry per named component schema.
C22_ExtractionExact ==
    \A p \in SeqProcs : \A i \in 1..Len(pendingOperations[p]) :
        LET doc == pendingOperations[p][i].spec
            entry == pendingOperations[p][i].entry
            operations == entry.operations
        IN  /\ {<<operations[j].path, operations[j].method>> : j \in 1..Len(operations)}
                  = MethodPairs(doc)
            /\ Len(operations) = Cardinality(MethodPairs(doc))
            /\ \A j \in 1..Len(operations) :
                  operations[j].method \in HttpMethods =>
                      LET tags == OperationAt(doc, operations[j].path,
                                              operations[j].method).tags
                      IN  operations[j].group =
                              IF tags = << >> THEN Undefined ELSE Head(tags)
            /\ Len(entry.schemas) = (IF doc.hasSchemas THEN Len(doc.schemas) ELSE 0)
            /\ \A j \in 1..Len(entry.schemas) : entry.schemas[j].name = doc.schemas[j].name

\* a build of caller p has not consumed the scanner's sequence to its end
Scanning(p) == pc[p] \in {"scanEntry", "scan"}

\* C23: with calls run one at a time, no step taken while a build has not
\* consumed the scanner's sequence to its end writes a document record or
\* the catalog record; and the step in which the sequence throws ends the
\* build with SCAN_ERROR, the build having completed no write, and leaves the
\* in-memory Catalog as the build found it.
C23_NoWriteBeforeScanEnd ==
    [][\A p \in SeqProcs :
          /\ Scanning(p) => (diskSpecs' = diskSpecs /\ diskCatalog' = diskCatalog)
          /\ (pc[p] = "scan" /\ pc'[p] = "scanThrown") =>
                /\ result'[p] = "SCAN_ERROR"
                /\ saved'[p] = {}
                /\ tempCatalog'[p] = << >>
                /\ catalog' = catalog
                /\ catalog' = pre'[p].catalog]_vars

\* the scanner has thrown after yielding a document that is pending, over
\* the Catalog and the records of an earlier build
C23_Witness ==
    \E p \in SeqProcs :
        /\ pc[p] = "scanThrown"
        /\ fault[p] = "scan"
        /\ result[p] = "SCAN_ERROR"
        /\ pendingOperations[p] # << >>
        /\ catalog # << >>
        /\ diskCatalog.entries = catalog
        /\ pendingOperations[p][1].spec # diskSpecs[pendingOperations[p][1].entry.uri.specId]

\* the queries and the specId arguments of the schema searches: a specId of
\* the sources, none (undefined), one no source has, and the empty string
SchemaQueries == {<<"P", "e", "t">>, <<"e", "r">>, <<"z">>, Ussr, Ordor}

SchemaProbeSpecIds == SpecIds \cup {Undefined, "zz", ""}

\* entry is a schema of a Catalog entry of specId, annotated with it
IsSchemaOf(entry, specId) ==
    /\ entry.specId = specId
    /\ \E i \in 1..Len(catalog) :
          /\ catalog[i].uri.specId = specId
          /\ \E j \in 1..Len(catalog[i].schemas) :
                /\ catalog[i].schemas[j].name = entry.name
                /\ catalog[i].schemas[j].description = entry.description

\* C24: after a successful build searchSchemas(query, specId) returns, for a
\* specId of the Catalog, only schemas of the entry of that specId annotated
\* with it; for a specId the Catalog does not have, nothing; and without a
\* specId only schemas of Catalog entries, each annotated with the specId of
\* its entry.
C24_SearchSchemasScoped ==
    \A p \in SeqProcs :
        Succeeded(p) =>
            \A query \in SchemaQueries : \A specId \in SchemaProbeSpecIds :
                LET results == SearchSchemas(query, specId)
                IN  IF specId = Undefined
                    THEN \A entry \in results :
                            \E s \in CatalogIds(catalog) : IsSchemaOf(entry, s)
                    ELSE IF specId \in CatalogIds(catalog)
                         THEN \A entry \in results : IsSchemaOf(entry, specId)
                         ELSE results = {}

\* the target of caller p's point lookup is not in the SpecStore
TargetMissing(p) ==
    LET args == tool[p].args
        doc == specs[args[1]]
    IN  \/ doc = Null
        \/ /\ tool[p].name = "load-api-operation-by-operationId"
           /\ ~HasOperationId(doc, args[2])
        \/ /\ tool[p].name = "load-api-operation-by-path-and-method"
           /\ ~HasOperationAt(doc, args[2], args[3])
        \/ /\ tool[p].name = "load-api-schema-by-schemaName"
           /\ ~HasSchema(doc, args[2])

\* C25: refresh-api-catalog replies with its acknowledgment only when the
\* refresh() it awaited has completed successfully; when refresh() failed
\* the reply is no acknowledgment but the error of refresh(); and a point
\* lookup whose target is not found replies with a serialized null, not with
\* an error.
C25_RemoteCallReplies ==
    \A p \in SeqProcs :
        /\ tool[p].name = "refresh-api-catalog" =>
              /\ tool[p].reply = Acknowledgment => (pc[p] = "idle" /\ result[p] = "ok")
              /\ (tool[p].reply.kind # "none" /\ result[p] # "ok") =>
                    tool[p].reply = Thrown(result[p])
        /\ (tool[p].name \notin {"none", "refresh-api-catalog"} /\ TargetMissing(p)) =>
              tool[p].reply = Serialized(Null)

\* C26: the Catalog a build commits lists its entries in the order in which
\* the scanner yielded their documents, whatever order the document writes
\* of the commit phase complete in.
C26_CatalogInScanOrder ==
    \A p \in SeqProcs :
        pc[p] = "returned" =>
            /\ GetApiCatalog = GoodEntries(scanned[p])
            /\ diskCatalog.entries = GoodEntries(scanned[p])

\* the constructor's initialize() and the client's refresh() have finished
BothFinished ==
    /\ initialized
    /\ pc[Constructor] = "idle"
    /\ result[Constructor] # "none"
    /\ tool[Client].name = "refresh-api-catalog"
    /\ tool[Client].reply.kind # "none"
    /\ pc[Client] = "idle"

\* C27: once the initialize() the McpService constructor started and a
\* refresh-api-catalog call that arrived while it was running have both
\* finished, whether they succeeded or failed, every entry of the in-memory
\* Catalog has its document in the SpecStore.
C27_OverlapLeavesCatalogStored ==
    BothFinished => CatalogIds(GetApiCatalog) \subseteq Stored(specs)

\* C28: every initialize() and every refresh() eventually finishes, having
\* returned or raised INIT_ERROR, when the scanner's sequence ends and every
\* storage operation the call awaits completes or fails; it does not wait
\* for the document writes that are outstanding when a write has failed.
C28_InitializeFinishes ==
    \A p \in SeqProcs :
        (op[p] \in {"initialize", "refresh"} /\ pc[p] # "idle")
            ~> (pc[p] = "idle" /\ result[p] \in {"ok", "INIT_ERROR"})

\* an initialize() or refresh() has raised INIT_ERROR after a document write
\* failed, while another write of the same build is still outstanding
C28_Witness ==
    \E p \in SeqProcs :
        /\ pc[p] = "idle"
        /\ result[p] = "INIT_ERROR"
        /\ \E o \in orphans : o.kind = "save"

====
